---- MODULE Spec2Model ----
(***************************************************************************)
(* linux_dex.py: a PyQt front-end over adb and scrcpy.  The model covers   *)
(* the DexApp object: the device selector, the tracked scrcpy process,     *)
(* the reader and worker threads and the log view.  Text is a sequence of  *)
(* one-character strings, so that strip/split/join are computed as Python  *)
(* computes them.                                                          *)
(***************************************************************************)
EXTENDS Integers, Sequences, FiniteSets, TLC

\* ---------------------------------------------------------------- bounds
\* Lines the log view may hold before the logging handlers are disabled.
MaxLog == 3
\* scrcpy processes spawned in one session.
MaxSpawn == 2
\* push/pull/install worker threads running at the same time.
MaxWorkers == 1
\* Lines of stderr one reader thread gets to log.
MaxStderr == 1

\* ------------------------------------------------------------- literals
\* 'adb'
ADB ==
    <<"a","d","b">>

\* 'scrcpy'
SCRCPY ==
    <<"s","c","r","c","p","y">>

\* '<kein Gerät>'
PLACEHOLDER ==
    <<"<","k","e","i","n"," ","G","e","r","ä","t",">">>

\* 'List of devices attached'
HEADER_LINE ==
    <<"L","i","s","t"," ","o","f"," ","d","e","v","i","c","e","s"," ","a","t","t","a","c","h","e","d">>

\* '* daemon started successfully'
DAEMON_LINE ==
    <<"*"," ","d","a","e","m","o","n"," ","s","t","a","r","t","e","d"," ","s","u","c","c","e","s","s","f","u","l","l","y">>

\* 'A1  device usb:1'
ROW_A ==
    <<"A","1"," "," ","d","e","v","i","c","e"," ","u","s","b",":","1">>

\* 'B2 device'
ROW_B ==
    <<"B","2"," ","d","e","v","i","c","e">>

\* 'adb fehlt oder Fehler:'
TXT_ADB_MISSING ==
    <<"a","d","b"," ","f","e","h","l","t"," ","o","d","e","r"," ","F","e","h","l","e","r",":">>

\* 'Gefundene Geräte:'
TXT_FOUND ==
    <<"G","e","f","u","n","d","e","n","e"," ","G","e","r","ä","t","e",":">>

\* 'ADB: Gerät verbunden (state:'
TXT_CONNECTED ==
    <<"A","D","B",":"," ","G","e","r","ä","t"," ","v","e","r","b","u","n","d","e","n"," ","(","s","t","a","t","e",":">>

\* 'ADB: Kein verbundenes/autorisiertes Gerät oder Fehler:'
TXT_NOT_CONNECTED ==
    <<"A","D","B",":"," ","K","e","i","n"," ","v","e","r","b","u","n","d","e","n","e","s","/","a","u","t","o","r","i","s","i","e","r","t","e","s"," ","G","e","r","ä","t"," ","o","d","e","r"," ","F","e","h","l","e","r",":">>

\* 'Starte scrcpy:'
TXT_START_SCRCPY ==
    <<"S","t","a","r","t","e"," ","s","c","r","c","p","y",":">>

\* 'scrcpy nicht gefunden:'
TXT_SCRCPY_NOT_FOUND ==
    <<"s","c","r","c","p","y"," ","n","i","c","h","t"," ","g","e","f","u","n","d","e","n",":">>

\* '[scrcpy]'
TXT_SCRCPY_TAG ==
    <<"[","s","c","r","c","p","y","]">>

\* 'scrcpy beendet (exit code)'
TXT_SCRCPY_ENDED ==
    <<"s","c","r","c","p","y"," ","b","e","e","n","d","e","t"," ","(","e","x","i","t"," ","c","o","d","e",")">>

\* 'scrcpy gestoppt.'
TXT_SCRCPY_STOPPED ==
    <<"s","c","r","c","p","y"," ","g","e","s","t","o","p","p","t",".">>

\* 'Kein scrcpy Prozess aktiv.'
TXT_NO_SCRCPY ==
    <<"K","e","i","n"," ","s","c","r","c","p","y"," ","P","r","o","z","e","s","s"," ","a","k","t","i","v",".">>

\* 'adb push'
TXT_ADB_PUSH ==
    <<"a","d","b"," ","p","u","s","h">>

\* 'push result:'
TXT_PUSH_RESULT ==
    <<"p","u","s","h"," ","r","e","s","u","l","t",":">>

\* 'adb pull'
TXT_ADB_PULL ==
    <<"a","d","b"," ","p","u","l","l">>

\* 'pull result:'
TXT_PULL_RESULT ==
    <<"p","u","l","l"," ","r","e","s","u","l","t",":">>

\* 'Installiere APK:'
TXT_INSTALL ==
    <<"I","n","s","t","a","l","l","i","e","r","e"," ","A","P","K",":">>

\* 'install result:'
TXT_INSTALL_RESULT ==
    <<"i","n","s","t","a","l","l"," ","r","e","s","u","l","t",":">>

\* 'Starte App:'
TXT_START_APP ==
    <<"S","t","a","r","t","e"," ","A","p","p",":">>

\* 'start app:'
TXT_START_APP_RESULT ==
    <<"s","t","a","r","t"," ","a","p","p",":">>

\* 'Sende text to device:'
TXT_SEND_TEXT ==
    <<"S","e","n","d","e"," ","t","e","x","t"," ","t","o"," ","d","e","v","i","c","e",":">>

\* 'clipboard send:'
TXT_CLIP_RESULT ==
    <<"c","l","i","p","b","o","a","r","d"," ","s","e","n","d",":">>

\* ----------------------------------------------------------------- text
\* Python's str.isspace() characters that occur in the modelled texts.
WS == {" ", "\t", "\n", "\r"}

RECURSIVE LStrip(_)
LStrip(s) ==
    IF s # <<>> /\ Head(s) \in WS THEN LStrip(Tail(s)) ELSE s

RECURSIVE RStrip(_)
RStrip(s) ==
    IF s # <<>> /\ s[Len(s)] \in WS THEN RStrip(SubSeq(s, 1, Len(s) - 1)) ELSE s

\* str.strip()
Strip(s) == RStrip(LStrip(s))

\* The k-th smallest element of a set of positions.
Kth(S, k) == CHOOSE i \in S : Cardinality({j \in S : j < i}) = k - 1

\* str.split() with no argument: the maximal runs of non-whitespace, in
\* order; runs of whitespace separate them and give no empty part.
Split(s) ==
    LET starts == {i \in 1..Len(s) : s[i] \notin WS /\ (i = 1 \/ s[i - 1] \in WS)}
        ends == {i \in 1..Len(s) : s[i] \notin WS /\ (i = Len(s) \/ s[i + 1] \in WS)}
    IN  [k \in 1..Cardinality(starts) |-> SubSeq(s, Kth(starts, k), Kth(ends, k))]

\* str.splitlines(): the text between line breaks; a line break at the very
\* end adds no empty last line.
SplitLines(s) ==
    LET breaks == {i \in 1..Len(s) : s[i] = "\n"}
        n == Cardinality(breaks)
        total == IF s # <<>> /\ s[Len(s)] # "\n" THEN n + 1 ELSE n
        first(k) == IF k = 1 THEN 1 ELSE Kth(breaks, k - 1) + 1
        last(k) == IF k <= n THEN Kth(breaks, k) - 1 ELSE Len(s)
    IN  [k \in 1..total |-> SubSeq(s, first(k), last(k))]

RECURSIVE Join(_)
\* " ".join(parts)
Join(parts) ==
    IF parts = <<>> THEN <<>>
    ELSE IF Len(parts) = 1 THEN parts[1]
    ELSE parts[1] \o <<" ">> \o Join(Tail(parts))

\* seq[1:]
Rest(seq) == IF seq = <<>> THEN <<>> ELSE Tail(seq)

\* str.startswith(c) and str.endswith(c) for a one-character c
StartsWith(s, c) == s # <<>> /\ s[1] = c
EndsWith(s, c) == s # <<>> /\ s[Len(s)] = c

RECURSIVE EscapeQuotes(_)
\* text.replace('"', '\\"')
EscapeQuotes(s) ==
    IF s = <<>> THEN <<>>
    ELSE IF Head(s) = "\"" THEN <<"\\", "\"">> \o EscapeQuotes(Tail(s))
    ELSE <<Head(s)>> \o EscapeQuotes(Tail(s))

\* str(p) of an exit code, a count, or None (the empty set stands for None)
DigitStr(d) == <<"0","1","2","3","4","5","6","7","8","9">>[d + 1]

RECURSIVE NatStr(_)
NatStr(n) == IF n < 10 THEN <<DigitStr(n)>> ELSE NatStr(n \div 10) \o <<DigitStr(n % 10)>>

IntStr(n) == IF n < 0 THEN <<"-">> \o NatStr(-n) ELSE NatStr(n)

NONE_STR == <<"N","o","n","e">>

\* str() of poll()'s result: a set holding the return code, empty for None
OptStr(rc) == IF rc = {} THEN NONE_STR ELSE IntStr(CHOOSE c \in rc : TRUE)

\* ---------------------------------------------------- more literals
DAEMON == <<"d","a","e","m","o","n">>
\* '* daemon not running; starting now at tcp:5037'
DAEMON_STARTING_LINE ==
    <<"*"," ","d","a","e","m","o","n"," ","n","o","t"," ","r","u","n","n","i","n","g",";"," ","s","t","a","r","t","i","n","g"," ","n","o","w"," ","a","t"," ","t","c","p",":","5","0","3","7">>
OPT_S == <<"-","s">>
OPT_STAY_AWAKE == <<"-","-","s","t","a","y","-","a","w","a","k","e">>
OPT_PREFER_TEXT == <<"-","-","p","r","e","f","e","r","-","t","e","x","t">>
OPT_MAX_SIZE == <<"-","-","m","a","x","-","s","i","z","e">>
SIZE_1280 == <<"1","2","8","0">>
ARG_DEVICES == <<"d","e","v","i","c","e","s">>
OPT_L == <<"-","l">>
ARG_GET_STATE == <<"g","e","t","-","s","t","a","t","e">>
ARG_PUSH == <<"p","u","s","h">>
ARG_PULL == <<"p","u","l","l">>
ARG_INSTALL == <<"i","n","s","t","a","l","l">>
OPT_R == <<"-","r">>
ARG_SHELL == <<"s","h","e","l","l">>
ARG_AM == <<"a","m">>
ARG_START == <<"s","t","a","r","t">>
OPT_N == <<"-","n">>
ARG_INPUT == <<"i","n","p","u","t">>
ARG_TEXT == <<"t","e","x","t">>
STATE_DEVICE == <<"d","e","v","i","c","e">>
ARROW == <<"-",">">>

\* ------------------------------------------------ the outside world
\* What a subprocess call meets: the tool runs and exits with a return code
\* and its two output streams, or the executable is missing.
Exited(returncode, stdout, stderr) ==
    [exc |-> "", returncode |-> returncode, stdout |-> stdout, stderr |-> stderr]

NotFound(msg) ==
    [exc |-> "FileNotFoundError", returncode |-> 0, stdout |-> <<>>, stderr |-> msg]

RECURSIVE Unlines(_)
\* The lines of a tool's output, each ended by a line break.
Unlines(ls) ==
    IF ls = <<>> THEN <<>> ELSE Head(ls) \o <<"\n">> \o Unlines(Tail(ls))

ERR_CLOSED == <<"e","r","r","o","r",":"," ","c","l","o","s","e","d","\n">>
ERR_NO_ADB == <<"N","o"," ","s","u","c","h"," ","f","i","l","e",":"," ","'","a","d","b","'">>
ERR_NO_SCRCPY == <<"N","o"," ","s","u","c","h"," ","f","i","l","e",":"," ","'","s","c","r","c","p","y","'">>
OUT_SUCCESS == <<"S","u","c","c","e","s","s","\n">>
OUT_DEVICE == <<"d","e","v","i","c","e","\n">>
OUT_OFFLINE == <<"o","f","f","l","i","n","e","\n">>
STDERR_LINE == <<"I","N","F","O",":"," ","o","k","\n">>
PATH_F == <<"/","f">>
TEXT_ACTIVITY == <<"a","/",".","M">>
TEXT_BLANK == <<" ">>
TEXT_QUOTED == <<"a","\"","b">>

\* Outputs of `adb devices -l` with exit code 0 in a running session: the
\* header and the rows of the devices attached, then an empty line.
Listings ==
    { Unlines(<<HEADER_LINE, <<>>>>),
      Unlines(<<HEADER_LINE, ROW_A, ROW_B, <<>>>>) }

\* The same outputs when the call had to start the adb server first and
\* reports that ahead of the table.
ServerStartListings ==
    { Unlines(<<DAEMON_STARTING_LINE, DAEMON_LINE, HEADER_LINE, <<>>>>),
      Unlines(<<DAEMON_STARTING_LINE, DAEMON_LINE, HEADER_LINE, ROW_A, <<>>>>) }

AllListings ==
    Listings \cup ServerStartListings
        \cup { Unlines(<<HEADER_LINE, ROW_A, <<>>>>),
               Unlines(<<HEADER_LINE, ROW_B, <<>>>>) }

ListOutcomes ==
    { Exited(0, out, <<>>) : out \in Listings } \cup { NotFound(ERR_NO_ADB) }

AllListOutcomes ==
    { Exited(0, out, <<>>) : out \in AllListings }
        \cup { Exited(1, <<>>, ERR_CLOSED), NotFound(ERR_NO_ADB) }

CmdOutcomes ==
    { Exited(0, OUT_SUCCESS, <<>>), Exited(1, <<>>, ERR_CLOSED) }

StateOutcomes ==
    { Exited(0, OUT_DEVICE, <<>>), Exited(0, OUT_OFFLINE, <<>>),
      Exited(1, <<>>, ERR_CLOSED) }

PopenOutcomes == {"", "FileNotFoundError"}
WaitOutcomes == {"", "TimeoutExpired"}
ExitCodes == {0, 1}
TerminatedCode == 0 - 15
DialogPaths == {<<>>, PATH_F}
AppTexts == {<<>>, TEXT_BLANK, TEXT_ACTIVITY}
ClipTexts == {<<>>, TEXT_QUOTED}

\* ------------------------------------------------------------ state
VARIABLES
    items,          \* device_combo: the entries of the selector
    currentIndex,   \* device_combo: the selected entry, 0 for none
    scrcpy_proc,    \* self.scrcpy_proc: NoProc or the tracked process
    procs,          \* the scrcpy processes spawned: {} running, {rc} exited
    readers,        \* the _scrcpy_reader thread started with each process
    workers,        \* the push/pull/install threads that are running
    log,            \* the lines of the log view
    listing,        \* what the latest `adb devices -l` call met
    ev              \* what the latest step did outside the object

vars == <<items, currentIndex, scrcpy_proc, procs, readers, workers, log, listing, ev>>

NoProc == 0
\* get_selected_device's None; a selected device is never the empty text.
NoDevice == <<>>

Event(op) ==
    [op |-> op, dialog |-> "", argv |-> <<>>, code |-> {}, raised |-> "",
     started |-> FALSE, terminate |-> NoProc, reader |-> NoProc, field |-> <<>>]

\* subprocess.run of cmd: a None among the arguments is a TypeError raised
\* before anything runs; a missing executable is reported as code 127.
run_cmd(cmd, o) ==
    IF \E i \in 1..Len(cmd) : cmd[i] = NoDevice
    THEN [raised |-> "TypeError", code |-> {}, out |-> <<>>, err |-> <<>>]
    ELSE IF o.exc = "FileNotFoundError"
    THEN [raised |-> "", code |-> {127}, out |-> <<>>, err |-> o.stderr]
    ELSE [raised |-> "", code |-> {o.returncode}, out |-> Strip(o.stdout),
          err |-> Strip(o.stderr)]

adb(cmd_args, o) == run_cmd(<<ADB>> \o cmd_args, o)

Code(r) == CHOOSE c \in r.code : TRUE

\* A log view that shows the latest line only (setText for append).
log_set(l, parts) == <<Join(parts)>>

\* log_msg: one line, the parts joined by blanks, appended to the view.
log_msg(l, parts) == Append(l, Join(parts))

currentText == IF currentIndex = 0 THEN <<>> ELSE items[currentIndex]

get_selected_device ==
    IF currentText = <<>> THEN NoDevice ELSE Split(currentText)[1]

\* The device test without its placeholder half.
DeviceIsNone(device) == device = NoDevice

\* `not device or device.startswith("<")`
DeviceMissing(device) == device = NoDevice \/ StartsWith(device, "<")

\* poll(): the return code of an exited process, None ({}) while it runs
Poll(p) == procs[p]

RECURSIVE NonBlank(_)
\* [l.strip() for l in out.splitlines() if l.strip()]
NonBlank(ls) ==
    IF ls = <<>> THEN <<>>
    ELSE IF Strip(Head(ls)) = <<>> THEN NonBlank(Tail(ls))
    ELSE <<Strip(Head(ls))>> \o NonBlank(Tail(ls))

\* The rows refresh_devices leaves out: `device_id == "daemon" or
\* device_id.endswith(":")`
SkippedRow(device_id) == device_id = DAEMON \/ EndsWith(device_id, ":")

RECURSIVE DeviceEntries(_)
\* The loop of refresh_devices over lines[1:].
DeviceEntries(ls) ==
    IF ls = <<>> THEN <<>>
    ELSE LET parts == Split(Head(ls))
             device_id == parts[1]
         IN  IF SkippedRow(device_id) THEN DeviceEntries(Tail(ls))
             ELSE <<device_id \o <<" ">> \o Join(Rest(parts))>>
                      \o DeviceEntries(Tail(ls))

ParseDevices(out) == DeviceEntries(Rest(NonBlank(SplitLines(out))))

\* A failed listing that leaves the selector as it was.
ComboKept(old) == old

\* The selector after a failed listing: device_combo.clear()
ComboAfterFailure(old) == <<>>

\* A listing added to the selector without clear().
ComboAppended(old, devices) ==
    old \o (IF devices # <<>> THEN devices ELSE <<PLACEHOLDER>>)

\* The selector after a listing: clear(), then the devices or the placeholder
ComboAfterListing(old, devices) ==
    IF devices # <<>> THEN devices ELSE <<PLACEHOLDER>>

\* refresh_devices as a function of what adb met: the selector, its current
\* entry (Qt selects the first entry added to an empty selector) and the log.
Refreshed(o, oldItems, l) ==
    LET r == adb(<<ARG_DEVICES, OPT_L>>, o) IN
    IF Code(r) # 0
    THEN [items |-> ComboAfterFailure(oldItems), index |-> 0,
          log |-> log_msg(l, <<TXT_ADB_MISSING, r.err>>), code |-> r.code]
    ELSE LET devices == ParseDevices(r.out)
             new == ComboAfterListing(oldItems, devices)
         IN  [items |-> new, index |-> IF new = <<>> THEN 0 ELSE 1,
              log |-> log_msg(l, <<TXT_FOUND, IntStr(Len(devices))>>),
              code |-> r.code]

\* DexApp.__init__: no process tracked, and a first refresh_devices().
Constructed(o) ==
        LET s == Refreshed(o, <<>>, <<>>) IN
        /\ items = s.items
        /\ currentIndex = s.index
        /\ log = s.log
        /\ listing = o
        /\ scrcpy_proc = NoProc
        /\ procs = <<>>
        /\ readers = <<>>
        /\ workers = <<>>
        /\ ev = [Event("__init__") EXCEPT !.argv = <<ADB, ARG_DEVICES, OPT_L>>,
                                          !.code = s.code]

Init == \E o \in ListOutcomes : Constructed(o)

\* The refresh button and the 5 s timer.
refresh_devices(o) ==
    /\ Len(log) < MaxLog
    /\ LET s == Refreshed(o, items, log) IN
        /\ items' = s.items
        /\ currentIndex' = s.index
        /\ log' = s.log
        /\ listing' = o
        /\ ev' = [Event("refresh_devices") EXCEPT
                      !.argv = <<ADB, ARG_DEVICES, OPT_L>>, !.code = s.code]
    /\ UNCHANGED <<scrcpy_proc, procs, readers, workers>>

\* The user picks another entry of the selector.
select_device(i) ==
    /\ i \in 1..Len(items)
    /\ i # currentIndex
    /\ currentIndex' = i
    /\ ev' = Event("select_device")
    /\ UNCHANGED <<items, scrcpy_proc, procs, readers, workers, log, listing>>

check_connection(o) ==
    /\ Len(log) < MaxLog
    /\ LET r == adb(<<ARG_GET_STATE>>, o) IN
        /\ log' = IF Code(r) = 0 /\ Strip(r.out) = STATE_DEVICE
                  THEN log_msg(log, <<TXT_CONNECTED, Strip(r.out) \o <<")">>>>)
                  ELSE log_msg(log, <<TXT_NOT_CONNECTED,
                                      IF r.err # <<>> THEN r.err ELSE r.out>>)
        /\ ev' = [Event("check_connection") EXCEPT
                      !.argv = <<ADB, ARG_GET_STATE>>, !.code = r.code]
    /\ UNCHANGED <<items, currentIndex, scrcpy_proc, procs, readers, workers, listing>>

\* start_scrcpy with the test of poll() turned round.
AlreadyRunningInverted == scrcpy_proc # NoProc /\ Poll(scrcpy_proc) # {}

\* `self.scrcpy_proc and self.scrcpy_proc.poll() is None` in start_scrcpy
AlreadyRunning == scrcpy_proc # NoProc /\ Poll(scrcpy_proc) = {}

\* The handle start_scrcpy tracks once Popen has returned process p.
TrackedAfterSpawn(old, p) == p

start_scrcpy(popen) ==
    LET device == get_selected_device
        cmd == <<SCRCPY, OPT_S, device, OPT_STAY_AWAKE, OPT_PREFER_TEXT,
                 OPT_MAX_SIZE, SIZE_1280>>
        started == log_msg(log, <<TXT_START_SCRCPY, Join(cmd)>>)
        p == Len(procs) + 1
    IN
    IF DeviceMissing(device)
    THEN /\ ev' = [Event("start_scrcpy") EXCEPT !.dialog = "warning"]
         /\ UNCHANGED <<items, currentIndex, scrcpy_proc, procs, readers,
                        workers, log, listing>>
    ELSE IF AlreadyRunning
    THEN /\ ev' = [Event("start_scrcpy") EXCEPT !.dialog = "information"]
         /\ UNCHANGED <<items, currentIndex, scrcpy_proc, procs, readers,
                        workers, log, listing>>
    ELSE IF popen = "FileNotFoundError"
    THEN /\ Len(log) + 2 <= MaxLog
         /\ log' = log_msg(started, <<TXT_SCRCPY_NOT_FOUND, ERR_NO_SCRCPY>>)
         /\ ev' = [Event("start_scrcpy") EXCEPT !.dialog = "critical",
                                                !.argv = cmd]
         /\ UNCHANGED <<items, currentIndex, scrcpy_proc, procs, readers,
                        workers, listing>>
    ELSE /\ Len(log) < MaxLog
         /\ p <= MaxSpawn
         /\ log' = started
         /\ procs' = Append(procs, {})
         /\ scrcpy_proc' = TrackedAfterSpawn(scrcpy_proc, p)
         /\ readers' = Append(readers, [pc |-> "start", stream |-> NoProc, lines |-> 0])
         /\ ev' = [Event("start_scrcpy") EXCEPT !.argv = cmd, !.started = TRUE]
         /\ UNCHANGED <<items, currentIndex, workers, listing>>

\* A scrcpy process ends by itself (the device is unplugged, its window is
\* closed, it fails): its stderr reaches end of file and poll() reports rc.
scrcpy_exits(p, rc) ==
    /\ p \in 1..Len(procs)
    /\ procs[p] = {}
    /\ procs' = [procs EXCEPT ![p] = {rc}]
    /\ ev' = [Event("scrcpy_exits") EXCEPT !.code = {rc}]
    /\ UNCHANGED <<items, currentIndex, scrcpy_proc, readers, workers, log, listing>>

\* _scrcpy_reader up to the start of its loop: the stream it will read is
\* the stderr of whatever self.scrcpy_proc is when the thread gets to run.
reader_begins(t) ==
    /\ t \in 1..Len(readers)
    /\ readers[t].pc = "start"
    /\ readers' = [readers EXCEPT ![t] =
                      IF scrcpy_proc = NoProc
                      THEN [pc |-> "done", stream |-> NoProc, lines |-> 0]
                      ELSE [pc |-> "loop", stream |-> scrcpy_proc, lines |-> 0]]
    /\ ev' = [Event("_scrcpy_reader") EXCEPT !.reader = t]
    /\ UNCHANGED <<items, currentIndex, scrcpy_proc, procs, workers, log, listing>>

\* One turn of the loop: a line the running process wrote is logged.
reader_logs_line(t) ==
    /\ t \in 1..Len(readers)
    /\ readers[t].pc = "loop"
    /\ procs[readers[t].stream] = {}
    /\ readers[t].lines < MaxStderr
    /\ log' = log_msg(log, <<TXT_SCRCPY_TAG, Strip(STDERR_LINE)>>)
    /\ readers' = [readers EXCEPT ![t].lines = @ + 1]
    /\ ev' = [Event("_scrcpy_reader") EXCEPT !.reader = t]
    /\ UNCHANGED <<items, currentIndex, scrcpy_proc, procs, workers, listing>>

\* The loop ends when the stream is at end of file.
reader_sees_eof(t) ==
    /\ t \in 1..Len(readers)
    /\ readers[t].pc = "loop"
    /\ procs[readers[t].stream] # {}
    /\ readers' = [readers EXCEPT ![t].pc = "after"]
    /\ ev' = [Event("_scrcpy_reader") EXCEPT !.reader = t]
    /\ UNCHANGED <<items, currentIndex, scrcpy_proc, procs, workers, log, listing>>

\* The process whose exit code the reader's last line reports: the line
\* reads self.scrcpy_proc again.
ReportedProcess(t) == scrcpy_proc

\* The last line of _scrcpy_reader.
reader_reports(t) ==
    /\ t \in 1..Len(readers)
    /\ readers[t].pc = "after"
    /\ log' = log_msg(log, <<TXT_SCRCPY_ENDED, OptStr(Poll(ReportedProcess(t)))>>)
    /\ readers' = [readers EXCEPT ![t].pc = "done"]
    /\ ev' = [Event("_scrcpy_reader") EXCEPT !.reader = t]
    /\ UNCHANGED <<items, currentIndex, scrcpy_proc, procs, workers, listing>>

\* stop_scrcpy asking only whether a handle is tracked.
StopFindsHandle == scrcpy_proc # NoProc

\* `self.scrcpy_proc and self.scrcpy_proc.poll() is None` in stop_scrcpy
StopFindsProcess == scrcpy_proc # NoProc /\ Poll(scrcpy_proc) = {}

\* stop_scrcpy forgetting the process it has stopped.
TrackedCleared(old) == NoProc

\* The handle stop_scrcpy leaves tracked: it assigns nothing.
TrackedAfterStop(old) == old

\* terminate() and wait(timeout=3): the process ends within the three
\* seconds, or wait raises TimeoutExpired and the process is still running.
stop_scrcpy(wait) ==
    IF StopFindsProcess
    THEN IF procs[scrcpy_proc] = {} /\ wait = "TimeoutExpired"
         THEN /\ ev' = [Event("stop_scrcpy") EXCEPT !.terminate = scrcpy_proc,
                                                    !.raised = "TimeoutExpired"]
              /\ scrcpy_proc' = scrcpy_proc
              /\ UNCHANGED <<items, currentIndex, procs, readers, workers,
                             log, listing>>
         ELSE /\ Len(log) < MaxLog
              /\ procs' = IF procs[scrcpy_proc] = {}
                          THEN [procs EXCEPT ![scrcpy_proc] = {TerminatedCode}]
                          ELSE procs
              /\ log' = log_msg(log, <<TXT_SCRCPY_STOPPED>>)
              /\ scrcpy_proc' = TrackedAfterStop(scrcpy_proc)
              /\ ev' = [Event("stop_scrcpy") EXCEPT !.terminate = scrcpy_proc]
              /\ UNCHANGED <<items, currentIndex, readers, workers, listing>>
    ELSE /\ Len(log) < MaxLog
         /\ log' = log_msg(log, <<TXT_NO_SCRCPY>>)
         /\ ev' = Event("stop_scrcpy")
         /\ UNCHANGED <<items, currentIndex, scrcpy_proc, procs, readers,
                        workers, listing>>

\* The three handlers that hand an adb call to a thread of its own.
Rejected(op) ==
    /\ ev' = [Event(op) EXCEPT !.dialog = "warning"]
    /\ UNCHANGED <<items, currentIndex, scrcpy_proc, procs, readers, workers,
                   log, listing>>

Cancelled(op) ==
    /\ ev' = Event(op)
    /\ UNCHANGED <<items, currentIndex, scrcpy_proc, procs, readers, workers,
                   log, listing>>

Handed(op, line, target, cmd_args) ==
    /\ Len(log) < MaxLog
    /\ Len(workers) < MaxWorkers
    /\ log' = log_msg(log, line)
    /\ workers' = Append(workers, [target |-> target, cmd_args |-> cmd_args])
    /\ ev' = [Event(op) EXCEPT !.started = TRUE]
    /\ UNCHANGED <<items, currentIndex, scrcpy_proc, procs, readers, listing>>

cmd_push_file(local, target) ==
    LET device == get_selected_device IN
    IF DeviceMissing(device) THEN Rejected("cmd_push_file")
    ELSE IF local = <<>> \/ target = <<>> THEN Cancelled("cmd_push_file")
    ELSE Handed("cmd_push_file", <<TXT_ADB_PUSH, local, ARROW, target>>,
                "_adb_push_thread", <<OPT_S, device, ARG_PUSH, local, target>>)

cmd_pull_file(picked, typed, local) ==
    LET device == get_selected_device
        remote == IF picked # <<>> THEN picked ELSE typed
    IN
    IF DeviceMissing(device) THEN Rejected("cmd_pull_file")
    ELSE IF remote = <<>> \/ local = <<>> THEN Cancelled("cmd_pull_file")
    ELSE Handed("cmd_pull_file", <<TXT_ADB_PULL, remote, ARROW, local>>,
                "_adb_pull_thread", <<OPT_S, device, ARG_PULL, remote, local>>)

install_apk(apk_path) ==
    LET device == get_selected_device IN
    IF DeviceMissing(device) THEN Rejected("install_apk")
    ELSE IF apk_path = <<>> THEN Cancelled("install_apk")
    ELSE Handed("install_apk", <<TXT_INSTALL, apk_path>>,
                "_install_thread", <<OPT_S, device, ARG_INSTALL, OPT_R, apk_path>>)

ResultLabel(target) ==
    CASE target = "_adb_push_thread" -> TXT_PUSH_RESULT
      [] target = "_adb_pull_thread" -> TXT_PULL_RESULT
      [] target = "_install_thread" -> TXT_INSTALL_RESULT

\* _adb_push_thread, _adb_pull_thread, _install_thread: the adb call and the
\* line with its result.
worker_finishes(w, o) ==
    /\ w \in 1..Len(workers)
    /\ LET r == adb(workers[w].cmd_args, o) IN
        /\ log' = log_msg(log, <<ResultLabel(workers[w].target),
                                 IntStr(Code(r)), r.out, r.err>>)
        /\ ev' = [Event(workers[w].target) EXCEPT
                      !.argv = <<ADB>> \o workers[w].cmd_args, !.code = r.code]
    /\ workers' = [i \in 1..(Len(workers) - 1) |->
                      IF i < w THEN workers[i] ELSE workers[i + 1]]
    /\ UNCHANGED <<items, currentIndex, scrcpy_proc, procs, readers, listing>>

\* start_app and send_clipboard: a text field, then adb on the UI thread.
Immediate(op, field, required, first, cmd_args, label, o) ==
    IF required = <<>>
    THEN /\ ev' = [Event(op) EXCEPT !.dialog = "warning", !.field = field]
         /\ UNCHANGED <<items, currentIndex, scrcpy_proc, procs, readers,
                        workers, log, listing>>
    ELSE LET r == adb(cmd_args, o) IN
         IF r.raised # ""
         THEN /\ Len(log) < MaxLog
              /\ log' = log_msg(log, first)
              /\ ev' = [Event(op) EXCEPT !.argv = <<ADB>> \o cmd_args,
                                         !.raised = r.raised, !.field = field]
              /\ UNCHANGED <<items, currentIndex, scrcpy_proc, procs, readers,
                             workers, listing>>
         ELSE /\ Len(log) + 2 <= MaxLog
              /\ log' = log_msg(log_msg(log, first),
                                <<label, IntStr(Code(r)), r.out, r.err>>)
              /\ ev' = [Event(op) EXCEPT !.argv = <<ADB>> \o cmd_args,
                                         !.code = r.code, !.field = field]
              /\ UNCHANGED <<items, currentIndex, scrcpy_proc, procs, readers,
                             workers, listing>>

start_app(field, o) ==
    LET device == get_selected_device
        pkg_activity == Strip(field)
    IN  Immediate("start_app", field, pkg_activity,
                  <<TXT_START_APP, pkg_activity>>,
                  <<OPT_S, device, ARG_SHELL, ARG_AM, ARG_START, OPT_N, pkg_activity>>,
                  TXT_START_APP_RESULT, o)

send_clipboard(text, o) ==
    LET device == get_selected_device
        safe == EscapeQuotes(text)
    IN  Immediate("send_clipboard", text, text,
                  <<TXT_SEND_TEXT, safe>>,
                  <<OPT_S, device, ARG_SHELL, ARG_INPUT, ARG_TEXT, safe>>,
                  TXT_CLIP_RESULT, o)

Next ==
    \/ \E o \in ListOutcomes : refresh_devices(o)
    \/ \E i \in 1..Len(items) : select_device(i)
    \/ \E o \in StateOutcomes : check_connection(o)
    \/ \E popen \in PopenOutcomes : start_scrcpy(popen)
    \/ \E p \in 1..Len(procs), rc \in ExitCodes : scrcpy_exits(p, rc)
    \/ \E t \in 1..Len(readers) : reader_begins(t)
    \/ \E t \in 1..Len(readers) : reader_logs_line(t)
    \/ \E t \in 1..Len(readers) : reader_sees_eof(t)
    \/ \E t \in 1..Len(readers) : reader_reports(t)
    \/ \E wait \in WaitOutcomes : stop_scrcpy(wait)
    \/ \E local \in DialogPaths, target \in DialogPaths : cmd_push_file(local, target)
    \/ \E picked \in DialogPaths, typed \in DialogPaths, local \in DialogPaths :
          cmd_pull_file(picked, typed, local)
    \/ \E apk_path \in DialogPaths : install_apk(apk_path)
    \/ \E w \in 1..Len(workers), o \in CmdOutcomes : worker_finishes(w, o)
    \/ \E field \in AppTexts, o \in CmdOutcomes : start_app(field, o)
    \/ \E text \in ClipTexts, o \in CmdOutcomes : send_clipboard(text, o)

Spec == Init /\ [][Next]_vars

\* The selector alone, over every output of the listing: the refreshes (by
\* the timer or the button) and the user's choices.
InitRefresh == \E o \in AllListOutcomes : Constructed(o)

NextRefresh ==
    \/ \E o \in AllListOutcomes : refresh_devices(o)
    \/ \E i \in 1..Len(items) : select_device(i)

SpecRefresh == InitRefresh /\ [][NextRefresh]_vars

\* ------------------------------------------------------------- claims
\* The selector is empty or shows the placeholder.
NoDeviceSelected == currentText = <<>> \/ currentText = PLACEHOLDER

\* The scrcpy processes that are running.
Alive == {p \in 1..Len(procs) : procs[p] = {}}

\* The tracked process is running.
MirrorActive == scrcpy_proc # NoProc /\ scrcpy_proc \in Alive

\* The step recorded in e met a failure of its external command: a return
\* code other than 0 (127 for a missing adb) or a missing scrcpy.
Failed(e) == (\E c \in e.code : c # 0) \/ e.dialog = "critical"

ListingFailed == listing.exc # "" \/ listing.returncode # 0

ListingLines == NonBlank(SplitLines(listing.stdout))

FileOps == {"cmd_push_file", "cmd_pull_file", "install_apk"}
DeviceOps == FileOps \cup {"start_scrcpy", "start_app", "send_clipboard"}

\* C1: at most one scrcpy process spawned by the application is running,
\* whatever start_scrcpy, stop_scrcpy, refresh_devices and process exits
\* have happened.
C1_AtMostOneMirror == Cardinality(Alive) <= 1

\* A second process has been spawned after the first one ended.
C1_SecondMirrorRunning == Len(procs) = 2 /\ procs[1] # {} /\ procs[2] = {}

\* C2: with no device selected, cmd_push_file, cmd_pull_file and install_apk
\* start no worker thread and run no adb command.
C2_RejectedBeforeSpawn ==
    [][ (ev'.op \in FileOps /\ NoDeviceSelected)
            => /\ workers' = workers
               /\ ev'.started = FALSE
               /\ ev'.argv = <<>>
               /\ log' = log ]_vars

\* A push request made while the selector shows the placeholder.
C2_PushWithPlaceholder ==
    ev.op = "cmd_push_file" /\ ev.dialog = "warning" /\ currentText = PLACEHOLDER

\* C3: stop_scrcpy with no running tracked process appends exactly one log
\* line (the "no process" line), terminates nothing, raises nothing and
\* leaves the handle and the selection as they were.
C3_StopWithoutProcess ==
    [][ (ev'.op = "stop_scrcpy" /\ ~MirrorActive)
            => /\ Len(log') = Len(log) + 1
               /\ SubSeq(log', 1, Len(log)) = log
               /\ log'[Len(log')] = TXT_NO_SCRCPY
               /\ ev'.terminate = NoProc
               /\ procs' = procs
               /\ ev'.raised = ""
               /\ scrcpy_proc' = scrcpy_proc
               /\ items' = items
               /\ currentIndex' = currentIndex ]_vars

\* stop_scrcpy has run while the tracked process had already ended.
C3_StoppedAfterExit ==
    /\ ev.op = "stop_scrcpy"
    /\ ev.terminate = NoProc
    /\ scrcpy_proc # NoProc
    /\ procs[scrcpy_proc] # {}

\* The device rows of a listing: its lines other than the header and the
\* lines reporting on the adb server ("* daemon ...").
IsDeviceRow(l) ==
    /\ Split(l) # Split(HEADER_LINE)
    /\ ~(Len(Split(l)) >= 2 /\ Split(l)[1] = <<"*">> /\ Split(l)[2] = DAEMON)

DeviceRows == SelectSeq(ListingLines, IsDeviceRow)

\* C4: after a successful listing the selector holds one entry per device
\* row, in order, each starting with the row's identifier, and the header
\* and the daemon lines give no entry wherever they stand; with no device
\* row it holds the placeholder alone.
C4_EntriesAreDeviceRows ==
    ~ListingFailed =>
        IF DeviceRows = <<>>
        THEN items = <<PLACEHOLDER>>
        ELSE /\ Len(items) = Len(DeviceRows)
             /\ \A i \in 1..Len(items) :
                    Split(items[i])[1] = Split(DeviceRows[i])[1]

\* The action the latest step ran lacked something it needs: a device, or
\* the text of its field.
LacksPrerequisite ==
    \/ ev.op \in DeviceOps /\ NoDeviceSelected
    \/ ev.op = "start_app" /\ Strip(ev.field) = <<>>
    \/ ev.op = "send_clipboard" /\ ev.field = <<>>

\* C5: a user action that lacks a prerequisite shows a warning and runs no
\* external command.
C5_WarningAndNoCommand ==
    LacksPrerequisite => ev.dialog = "warning" /\ ev.argv = <<>>

\* C6 as stated: a failed operation leaves the selection and the tracked
\* handle as they were.
C6_FailureChangesNothing ==
    [][ Failed(ev')
            => /\ items' = items
               /\ currentIndex' = currentIndex
               /\ scrcpy_proc' = scrcpy_proc ]_vars

\* C6 as amended: a failed operation leaves the tracked handle as it was,
\* and the selection too unless it is refresh_devices, which empties the
\* selector.
C6_FailureClearsOnlyOnRefresh ==
    [][ Failed(ev')
            => /\ scrcpy_proc' = scrcpy_proc
               /\ IF ev'.op = "refresh_devices"
                  THEN items' = <<>> /\ currentIndex' = 0
                  ELSE items' = items /\ currentIndex' = currentIndex ]_vars

\* A listing has failed in a session that had listed before.
C6_RefreshFailed ==
    ev.op = "refresh_devices" /\ Failed(ev) /\ Len(log) >= 2 /\ items = <<>>

\* stop_scrcpy has ended process p, or the reader thread started with p
\* has run to its end.
Finished(p) ==
    /\ procs[p] # {}
    /\ \/ ev.op = "stop_scrcpy" /\ ev.terminate = p /\ ev.raised = ""
       \/ readers[p].pc = "done"

\* C7 as stated: once the tracked process has ended by itself or through
\* stop_scrcpy, no handle to it is tracked.
C7_HandleDropped ==
    \A p \in 1..Len(procs) : Finished(p) => scrcpy_proc # p

\* C7 as amended: the handle is the process started last, ended or not; it
\* is none only until the first process is started.
C7_HandleKept == scrcpy_proc = Len(procs)

\* stop_scrcpy has ended the tracked process, which is still tracked.
C7_StoppedStillTracked ==
    /\ ev.op = "stop_scrcpy"
    /\ ev.terminate # NoProc
    /\ ev.raised = ""
    /\ scrcpy_proc = ev.terminate
    /\ procs[scrcpy_proc] # {}

\* The first words of the lines of the latest listing.
ListedTokens == {Split(ListingLines[i])[1] : i \in 1..Len(ListingLines)}

\* C8: every entry of the selector comes from the latest listing, so the
\* selected device is a token of that listing or the placeholder's, and it
\* is None after a failed listing.
C8_SelectionFromLatestListing ==
    IF ListingFailed
    THEN items = <<>> /\ get_selected_device = NoDevice
    ELSE /\ \A i \in 1..Len(items) :
                Split(items[i])[1] \in ListedTokens \cup {Split(PLACEHOLDER)[1]}
         /\ get_selected_device \in ListedTokens \cup {Split(PLACEHOLDER)[1]}

\* After a second listing the user has picked its second device.
C8_SecondDevicePicked ==
    /\ ev.op = "select_device"
    /\ Len(log) >= 2
    /\ currentIndex = 2
    /\ get_selected_device = <<"B", "2">>

\* C9: every step leaves the lines of the log in place and in order.
C9_LogAppendOnly ==
    [][ Len(log) <= Len(log') /\ SubSeq(log', 1, Len(log)) = log ]_vars

\* A worker thread has added its line below those of the handlers and of a
\* reader thread.
C9_ThreadsHaveLogged ==
    /\ ev.op = "_adb_push_thread"
    /\ Len(log) >= 4
    /\ \E t \in 1..Len(readers) : readers[t].lines > 0

\* C10: the last line of a reader thread gives the exit code of the process
\* whose stderr the thread has read.
C10_ReaderReportsItsProcess ==
    (ev.op = "_scrcpy_reader" /\ readers[ev.reader].pc = "done")
        => log[Len(log)] =
               Join(<<TXT_SCRCPY_ENDED, OptStr(procs[readers[ev.reader].stream])>>)
====
